---- MODULE Spec2Model ----
(***************************************************************************)
(* useFormHandler: a facade over one react-hook-form instance              *)
(* (useForm + yupResolver), and the withBaseField higher-order component   *)
(* that binds an input to it.                                              *)
(*                                                                         *)
(* The form engine is react-hook-form 7.51.2 as the facade calls it:       *)
(* setValue, getValues, formState, getFieldState, clearErrors, reset,      *)
(* trigger and handleSubmit.  Each operation of the facade is one action;  *)
(* the re-render the engine schedules after a state update is part of the  *)
(* action that caused it.  Schema validation is asynchronous: a validation *)
(* snapshots the form values when it starts and writes its result when it  *)
(* resolves, in any order relative to the other pending validations.       *)
(*                                                                         *)
(* An object of form values is a function from Fields; a key the object    *)
(* does not hold maps to Undef.  An error map holds "" for a field with no *)
(* error entry (fieldState normalises a missing message to '').            *)
(***************************************************************************)
EXTENDS Naturals, Sequences, FiniteSets

\* The fields of the documented form (DemoFormSchema).
Fields == {"name", "lastName"}

\* The field values the model draws from; "" is the empty input.
Values == {"", "Ada"}

\* A key that an object does not hold.
Undef == "undefined"

\* Pending validations at one time, where the claim is about their overlap.
MaxInFlight == 2

\* Pending validations at one time elsewhere.
MaxPending == 1

\* Renders of the field adapter in one run.
MaxRenders == 3

VARIABLES
    props,          \* the FormHandlerProps the facade was constructed with
    defaultValues,  \* the engine's default values (formState.defaultValues)
    formValues,     \* the engine's live field values
    errors,         \* the engine's error map: field -> message, "" for none
    isValid,        \* the engine's validity flag (formState.isValid)
    rendered,       \* the rendered formState holds the engine's own errors object
    inflight,       \* pending validations, oldest first
    snapshot,       \* what the last record returned by debugMode() now reads as
    snapAliased,    \* that record's errors is the engine's live errors object
    field,          \* the mounted WithFormHandlerField and its helper
    lastOp          \* the operation that ran last, its input and its outcome

vars == <<props, defaultValues, formValues, errors, isValid, rendered, inflight,
          snapshot, snapAliased, field, lastOp>>

engine == <<defaultValues, formValues, errors, isValid, rendered>>

----------------------------------------------------------------------------
\* Pure helpers

NoErrors == [f \in Fields |-> ""]

EmptyObject == [f \in Fields |-> Undef]

RequiredMessage == "This field is required"

\* yup.string().required(...): undefined and the empty string are rejected.
FieldError(v) == IF v = Undef \/ v = "" THEN RequiredMessage ELSE ""

\* yupResolver(props.schema): the error map of the whole form for `values`.
Resolver(values) == [f \in Fields |-> FieldError(values[f])]

IsEmptyObject(errs) == \A f \in Fields : errs[f] = ""

\* lodash isEqual on two objects of form values.
IsEqual(a, b) == \A f \in Fields : a[f] = b[f]

\* formInstance.getValues(): { ..._defaultValues, ..._formValues }
GetValues == [f \in Fields |-> IF formValues[f] # Undef THEN formValues[f]
                                                       ELSE defaultValues[f]]

\* Removes the i-th element of a sequence.
RemoveAt(s, i) == [j \in 1..(Len(s) - 1) |-> IF j < i THEN s[j] ELSE s[j + 1]]

----------------------------------------------------------------------------
\* The inputs the operations are called with

\* props.defaultValues: a value for every field of the form.
DefaultValuesInputs == [Fields -> Values]

\* SetValueProps.options: overrides of { shouldValidate: true, shouldDirty: true }.
\* The model keeps no dirty flags, so only shouldValidate is drawn.
ShouldValidateInputs == BOOLEAN

\* resetForm's `values`: absent, a value for every field, or the empty object {}.
NoValues == [given |-> FALSE]
ResetValuesInputs ==
    {NoValues} \cup {[given |-> TRUE, values |-> v] : v \in DefaultValuesInputs \cup {EmptyObject}}

\* resetForm's `options` (KeepStateOptions); absent options keep nothing.
NoOptions == [keepValues |-> FALSE, keepDefaultValues |-> FALSE, keepErrors |-> FALSE]
KeepStateOptions == [keepValues : BOOLEAN, keepDefaultValues : BOOLEAN, keepErrors : BOOLEAN]

\* clearErrors' and triggerValidation's `input`: absent, one field path, or a list.
NoInput == [kind |-> "undefined"]
PathInputs ==
    {NoInput} \cup {[kind |-> "string", name |-> f] : f \in Fields}
              \cup {[kind |-> "object", names |-> S] : S \in (SUBSET Fields) \ {{}}}

\* The fields an input names.
Named(input) ==
    IF input.kind = "string" THEN {input.name}
    ELSE IF input.kind = "object" THEN input.names
    ELSE {}

----------------------------------------------------------------------------
\* The facade's reads

\* formState() had it passed the engine's validity flag through.
FormStateNotNegated ==
    [defaultValues  |-> defaultValues,
     currentState   |-> GetValues,
     isValid        |-> isValid,
     errors         |-> errors,
     hasBeenUpdated |-> ~IsEqual(defaultValues, GetValues)]

\* formState() had it dropped the negation of isEqual.
FormStateEqualFlag ==
    [defaultValues  |-> defaultValues,
     currentState   |-> GetValues,
     isValid        |-> ~isValid,
     errors         |-> errors,
     hasBeenUpdated |-> IsEqual(defaultValues, GetValues)]

\* formState()
FormState ==
    [defaultValues  |-> defaultValues,
     currentState   |-> GetValues,
     isValid        |-> ~isValid,
     errors         |-> errors,
     hasBeenUpdated |-> ~IsEqual(defaultValues, GetValues)]

\* fieldState(name): invalid and the normalised error message.
FieldState(name) ==
    [invalid |-> errors[name] # "",
     error   |-> errors[name]]

\* debugMode(): formState() repacked, isValid negated once more.
DebugMode ==
    [defaultValues  |-> FormState.defaultValues,
     currentState   |-> FormState.currentState,
     isValid        |-> ~FormState.isValid,
     errors         |-> FormState.errors,
     hasBeenUpdated |-> FormState.hasBeenUpdated]

----------------------------------------------------------------------------
\* Bookkeeping shared by the operations

NoSnapshot == [taken |-> FALSE]

\* The engine wrote `newErrors` into its errors object in place: a debugMode()
\* record holding that same object reads the new content.
SnapshotAfterWrite(newErrors) ==
    IF snapshot.taken /\ snapAliased
    THEN [snapshot EXCEPT !.state.errors = newErrors]
    ELSE snapshot

\* The form values the field adapter's effect depends on changed.
NoteValues(newValues) ==
    [field EXCEPT !.valuesChanged = @ \/ ~IsEqual(newValues, GetValues)]

\* The first tag no pending validation carries.
FreeTag ==
    CHOOSE t \in 1..(Len(inflight) + 1) :
        /\ \A i \in 1..Len(inflight) : inflight[i].tag # t
        /\ \A u \in 1..(t - 1) : \E i \in 1..Len(inflight) : inflight[i].tag = u

\* A validation of fields as it starts: the resolver is called with `values`,
\* the form values of that moment, and the call holds the error map it will
\* resolve to.
Pending(all, names, values) ==
    [tag |-> FreeTag, kind |-> "trigger", all |-> all, names |-> names,
     errs |-> Resolver(values), overtaken |-> FALSE]

\* A submission as it starts: the resolver is called with `values` and will
\* resolve to them and their error map.
PendingSubmit(values) ==
    [tag |-> FreeTag, kind |-> "submit", vals |-> values, overtaken |-> FALSE]

\* The pending validations once the i-th resolved: those started before it and
\* still pending have been overtaken.
AfterResolve(i) ==
    RemoveAt([j \in 1..Len(inflight) |->
                 IF j < i THEN [inflight[j] EXCEPT !.overtaken = TRUE] ELSE inflight[j]], i)

----------------------------------------------------------------------------
\* Construction: useForm({ defaultValues, mode, resolver }).  The engine
\* validates the defaults on mount to set isValid, without recording errors.

Init ==
    /\ props \in {[defaultValues |-> d] : d \in DefaultValuesInputs}
    /\ defaultValues = props.defaultValues
    /\ formValues = props.defaultValues
    /\ errors = NoErrors
    /\ isValid = IsEmptyObject(Resolver(props.defaultValues))
    /\ rendered = isValid
    /\ inflight = <<>>
    /\ snapshot = NoSnapshot
    /\ snapAliased = FALSE
    /\ field = [mounted |-> FALSE, renders |-> 0, lastDep |-> 0,
                valuesChanged |-> FALSE, initialValueSet |-> FALSE]
    /\ lastOp = [op |-> "useFormHandler"]

----------------------------------------------------------------------------
\* setFormValue(args): formInstance.setValue(name, value, { shouldValidate,
\* shouldDirty, ...options }).  The value is written at once; with
\* shouldValidate the engine starts a validation of that field.

SetFormValue(name, value, shouldValidate) ==
    /\ formValues' = [formValues EXCEPT ![name] = value]
    /\ inflight' = IF shouldValidate
                   THEN Append(inflight, Pending(FALSE, {name}, formValues'))
                   ELSE inflight
    /\ field' = NoteValues([GetValues EXCEPT ![name] = value])
    /\ lastOp' = [op |-> "setFormValue", name |-> name, value |-> value]
    /\ UNCHANGED <<props, defaultValues, errors, isValid, rendered, snapshot, snapAliased>>

----------------------------------------------------------------------------
\* clearErrors(input)

\* clearErrors(input) had it stopped after the targeted clear.
ClearErrorsTargetedOnly(input) ==
    /\ errors' = [f \in Fields |-> IF f \in Named(input) THEN "" ELSE errors[f]]
    /\ snapshot' = SnapshotAfterWrite(errors')
    /\ rendered' = TRUE
    /\ lastOp' = [op |-> "clearErrors", input |-> input, before |-> errors]
    /\ UNCHANGED <<props, defaultValues, formValues, isValid, inflight, snapAliased, field>>

\* The targeted branches unset the named entries of the engine's errors object
\* in place; the final formInstance.clearErrors() installs a new empty object.
ClearErrors(input) ==
    /\ errors' = NoErrors
    /\ snapshot' = SnapshotAfterWrite(
                      [f \in Fields |-> IF f \in Named(input) THEN "" ELSE errors[f]])
    /\ snapAliased' = FALSE
    /\ rendered' = TRUE
    /\ lastOp' = [op |-> "clearErrors", input |-> input, before |-> errors]
    /\ UNCHANGED <<props, defaultValues, formValues, isValid, inflight, field>>

----------------------------------------------------------------------------
\* formInstance.reset(formValues, keepStateOptions)

Reset(resetValues, options) ==
    LET isEmptyResetValues == resetValues = EmptyObject
        values == IF isEmptyResetValues THEN defaultValues ELSE resetValues
    IN  /\ defaultValues' = IF options.keepDefaultValues THEN defaultValues ELSE resetValues
        /\ formValues' = IF options.keepValues THEN formValues ELSE values
        /\ errors' = IF options.keepErrors THEN errors ELSE NoErrors
        /\ snapAliased' = (snapAliased /\ options.keepErrors)
        /\ rendered' = TRUE

\* resetForm had it always reset to the defaults of construction.
ResetFormAlwaysDefaults(values, options) ==
    /\ Reset(props.defaultValues, options)
    /\ isValid' = IsEmptyObject(Resolver(GetValues'))
    /\ field' = NoteValues(GetValues')
    /\ lastOp' = [op |-> "resetForm", values |-> values,
                  plain |-> options = NoOptions]
    /\ UNCHANGED <<props, inflight, snapshot>>

\* resetForm(values, options).  After a reset the engine validates the form
\* again on the next render to set isValid.
ResetForm(values, options) ==
    /\ IF values.given
       THEN Reset(values.values, options)
       ELSE Reset(props.defaultValues, options)
    /\ isValid' = IsEmptyObject(Resolver(GetValues'))
    /\ field' = NoteValues(GetValues')
    /\ lastOp' = [op |-> "resetForm", values |-> values,
                  plain |-> options = NoOptions]
    /\ UNCHANGED <<props, inflight, snapshot>>

----------------------------------------------------------------------------
\* triggerValidation(input): formInstance.trigger(name | names | nothing).
\* The call stays pending until its schema validation resolves.

TriggerValidation(input) ==
    /\ inflight' = Append(inflight,
                      IF input.kind = "string" THEN Pending(FALSE, {input.name}, formValues)
                      ELSE IF input.kind = "object" THEN Pending(FALSE, input.names, formValues)
                      ELSE Pending(TRUE, Fields, formValues))
    /\ lastOp' = [op |-> "triggerValidation"]
    /\ UNCHANGED <<props, engine, snapshot, snapAliased, field>>

\* A validation had it dropped its result because a call started after it is
\* still pending.
ResolveUnlessSuperseded(i) ==
    LET call == inflight[i]
        errs == call.errs
        superseded == i < Len(inflight)
    IN  /\ call.kind = "trigger"
        /\ errors' = IF superseded THEN errors
                     ELSE IF call.all THEN errs
                     ELSE [f \in Fields |-> IF f \in call.names THEN errs[f] ELSE errors[f]]
        /\ isValid' = IsEmptyObject(errs)
        /\ rendered' = TRUE
        /\ snapshot' = IF call.all THEN snapshot ELSE SnapshotAfterWrite(errors')
        /\ snapAliased' = (snapAliased /\ ~call.all)
        /\ inflight' = AfterResolve(i)
        /\ lastOp' = [op |-> "resolve", all |-> call.all,
                      names |-> call.names, errs |-> errs, overtaken |-> call.overtaken,
                      result |-> IF call.all THEN IsEmptyObject(errs)
                                 ELSE \A f \in call.names : errs[f] = ""]
        /\ UNCHANGED <<props, defaultValues, formValues, field>>

\* The i-th pending trigger resolves.  A trigger of named fields sets or unsets
\* their entries in the engine's errors object; a trigger of the whole form
\* installs the resolver's error map.  isValid is that of the whole form.
Resolve(i) ==
    LET call == inflight[i]
        errs == call.errs
    IN  /\ call.kind = "trigger"
        /\ errors' = IF call.all THEN errs
                     ELSE [f \in Fields |-> IF f \in call.names THEN errs[f] ELSE errors[f]]
        /\ isValid' = IsEmptyObject(errs)
        /\ rendered' = TRUE
        /\ snapshot' = IF call.all THEN snapshot ELSE SnapshotAfterWrite(errors')
        /\ snapAliased' = (snapAliased /\ ~call.all)
        /\ inflight' = AfterResolve(i)
        /\ lastOp' = [op |-> "resolve", all |-> call.all,
                      names |-> call.names, errs |-> errs, overtaken |-> call.overtaken,
                      result |-> IF call.all THEN IsEmptyObject(errs)
                                 ELSE \A f \in call.names : errs[f] = ""]
        /\ UNCHANGED <<props, defaultValues, formValues, field>>

----------------------------------------------------------------------------
\* onSubmitHandler = formInstance.handleSubmit(props.onSubmit, props.onError)

\* The handler is called: the engine starts validating the form.
OnSubmitHandler ==
    /\ inflight' = Append(inflight, PendingSubmit(formValues))
    /\ lastOp' = [op |-> "onSubmitHandler"]
    /\ UNCHANGED <<props, engine, snapshot, snapAliased, field>>

\* handleSubmit had it invoked onSubmit whatever the validation found.
HandleSubmitAlwaysValid(i, throws) ==
    LET call == inflight[i]
        errs == Resolver(call.vals)
    IN  /\ call.kind = "submit"
        /\ errors' = errs
        /\ rendered' = TRUE
        /\ snapAliased' = FALSE
        /\ inflight' = AfterResolve(i)
        /\ lastOp' = [op |-> "handleSubmit", values |-> call.vals,
                      calls |-> <<[callback |-> "onSubmit", arg |-> call.vals]>>,
                      threw |-> throws,
                      outcome |-> IF throws THEN "rejected" ELSE "resolved"]
        /\ UNCHANGED <<props, defaultValues, formValues, isValid, snapshot, field>>

\* The i-th pending submit finishes validating: the engine installs the error
\* map and awaits props.onSubmit(values) when it is empty, props.onError(errors)
\* otherwise.  What the callback throws is thrown on by the handler.
HandleSubmit(i, throws) ==
    LET call == inflight[i]
        errs == Resolver(call.vals)
    IN  /\ call.kind = "submit"
        /\ errors' = errs
        /\ rendered' = TRUE
        /\ snapAliased' = FALSE
        /\ inflight' = AfterResolve(i)
        /\ lastOp' = [op |-> "handleSubmit", values |-> call.vals,
                      calls |-> IF IsEmptyObject(errs)
                                THEN <<[callback |-> "onSubmit", arg |-> call.vals]>>
                                ELSE <<[callback |-> "onError", arg |-> errs]>>,
                      threw |-> throws,
                      outcome |-> IF throws THEN "rejected" ELSE "resolved"]
        /\ UNCHANGED <<props, defaultValues, formValues, isValid, snapshot, field>>

----------------------------------------------------------------------------
\* A caller keeps the record debugMode() returns.  The record's errors is the
\* object formState().errors is, which after the first state update is the
\* engine's own.

DebugModeCall ==
    /\ snapshot' = [taken |-> TRUE, state |-> DebugMode]
    /\ snapAliased' = rendered
    /\ lastOp' = [op |-> "debugMode"]
    /\ UNCHANGED <<props, engine, inflight, field>>

----------------------------------------------------------------------------
\* withBaseField: one render of WithFormHandlerField for the field `name`.

FieldName == "name"

\* useWithBaseFieldHelper's setInitialValue: pushes the field's value into the
\* facade once.  The options of that push are not fixed: with shouldValidate
\* the push starts a validation of the field.
SetInitialValue(shouldValidate) ==
    IF field.initialValueSet
    THEN UNCHANGED <<formValues, inflight>>
    ELSE /\ formValues' = [formValues EXCEPT ![FieldName] = GetValues[FieldName]]
         /\ inflight' = IF shouldValidate
                        THEN Append(inflight, Pending(FALSE, {FieldName}, formValues'))
                        ELSE inflight

\* The dependency list of the effect holds formState().currentState, the
\* object getValues() allocates in this render.
NewObject == field.renders + 1

\* useEffect runs its callback on mount and when a dependency is not the
\* object (Object.is) the previous render held.
WithFormHandlerField(shouldValidate) ==
    LET dep == NewObject
        effectRuns == ~field.mounted \/ dep # field.lastDep
    IN  /\ field.renders < MaxRenders
        /\ IF effectRuns
           THEN SetInitialValue(shouldValidate)
           ELSE UNCHANGED <<formValues, inflight>>
        /\ field' = [mounted |-> TRUE, renders |-> field.renders + 1, lastDep |-> dep,
                     valuesChanged |-> FALSE,
                     initialValueSet |-> field.initialValueSet \/ effectRuns]
        /\ lastOp' = [op |-> "render", mount |-> ~field.mounted,
                      valuesChanged |-> field.valuesChanged, effectRan |-> effectRuns]
        /\ UNCHANGED <<props, defaultValues, errors, isValid, rendered, snapshot, snapAliased>>

----------------------------------------------------------------------------
\* The operations, as the specifications below combine them.  `limit` bounds
\* the validations pending at one time; the code has no such limit.

Room(limit) == Len(inflight) < limit

SetFormValueStep(limit) ==
    \E name \in Fields, value \in Values, shouldValidate \in ShouldValidateInputs :
        /\ shouldValidate => Room(limit)
        /\ SetFormValue(name, value, shouldValidate)

ClearErrorsStep == \E input \in PathInputs : ClearErrors(input)

ResetFormStep ==
    \E values \in ResetValuesInputs, options \in KeepStateOptions : ResetForm(values, options)

\* resetForm() with no values.
ResetToDefaultsStep == \E options \in KeepStateOptions : ResetForm(NoValues, options)

TriggerValidationStep(limit) ==
    /\ Room(limit)
    /\ \E input \in PathInputs : TriggerValidation(input)

ResolveStep == \E i \in 1..Len(inflight) : Resolve(i)

OnSubmitHandlerStep(limit) == Room(limit) /\ OnSubmitHandler

HandleSubmitStep == \E i \in 1..Len(inflight), throws \in BOOLEAN : HandleSubmit(i, throws)

RenderStep(limit) ==
    \E shouldValidate \in ShouldValidateInputs :
        /\ (shouldValidate /\ ~field.initialValueSet) => Room(limit)
        /\ WithFormHandlerField(shouldValidate)

\* Every operation.
Next ==
    \/ SetFormValueStep(MaxPending)
    \/ ClearErrorsStep
    \/ ResetFormStep
    \/ TriggerValidationStep(MaxPending)
    \/ ResolveStep
    \/ OnSubmitHandlerStep(MaxPending)
    \/ HandleSubmitStep
    \/ DebugModeCall
    \/ RenderStep(MaxPending)

Spec == Init /\ [][Next]_vars

\* The documented form: defaultValues = { name: '', lastName: '' }.
ExampleInit == Init /\ props.defaultValues = [f \in Fields |-> ""]

\* Values and defaults: setFormValue and resetForm, with the validations
\* setFormValue starts.
ValuesNext ==
    \/ SetFormValueStep(MaxPending)
    \/ ResetFormStep
    \/ ResolveStep

ValuesSpec == Init /\ [][ValuesNext]_vars

\* Errors and validity: validation, submission, clearErrors and resetForm() on
\* the documented form.
ErrorsNext ==
    \/ SetFormValueStep(MaxPending)
    \/ ClearErrorsStep
    \/ ResetToDefaultsStep
    \/ TriggerValidationStep(MaxPending)
    \/ ResolveStep
    \/ OnSubmitHandlerStep(MaxPending)
    \/ HandleSubmitStep

ErrorsSpec == ExampleInit /\ [][ErrorsNext]_vars

\* Overlapping validations.  A schema validation settles, so every pending
\* call resolves in the end.
ValidationNext ==
    \/ SetFormValueStep(MaxInFlight)
    \/ TriggerValidationStep(MaxInFlight)
    \/ ResolveStep

ValidationSpec ==
    /\ ExampleInit
    /\ [][ValidationNext]_vars
    /\ \A t \in 1..MaxInFlight :
          WF_vars(\E i \in 1..Len(inflight) : inflight[i].tag = t /\ Resolve(i))

\* A kept debugMode() record and the operations that follow it.
SnapshotNext ==
    \/ DebugModeCall
    \/ SetFormValueStep(MaxPending)
    \/ ClearErrorsStep
    \/ ResetToDefaultsStep
    \/ ResolveStep

SnapshotSpec == ExampleInit /\ [][SnapshotNext]_vars

\* The field adapter's renders among changes of the form values.
FieldNext ==
    \/ RenderStep(MaxPending)
    \/ SetFormValueStep(MaxPending)
    \/ ResetToDefaultsStep
    \/ ResolveStep

FieldSpec == ExampleInit /\ [][FieldNext]_vars

----------------------------------------------------------------------------
\* Properties

C6_IsValidNegated ==
    /\ FormState.isValid <=> ~isValid
    /\ FormState.isValid \in BOOLEAN

\* C6's case: a validation found every field valid, the engine reports the
\* form valid and formState().isValid is false.
C6_Witness ==
    /\ lastOp.op = "resolve"
    /\ IsEmptyObject(lastOp.errs)
    /\ isValid
    /\ FormState.isValid = FALSE

\* C7, as stated: every field of debugMode() has the value of the same field
\* of formState(), isValid included.
C7_DebugModeEqualsFormState ==
    /\ DOMAIN DebugMode = DOMAIN FormState
    /\ \A k \in DOMAIN FormState : DebugMode[k] = FormState[k]

\* What handleSubmit must have done for the values it validated: one callback,
\* onSubmit with the values when they satisfy the schema, onError with an
\* entry for each violating field and no other otherwise.
OneCallback(values, calls) ==
    /\ Len(calls) = 1
    /\ IF \A f \in Fields : FieldError(values[f]) = ""
       THEN calls[1] = [callback |-> "onSubmit", arg |-> values]
       ELSE /\ calls[1].callback = "onError"
            /\ \A f \in Fields : (calls[1].arg[f] # "") <=> (FieldError(values[f]) # "")

\* C3, as stated: every run of onSubmitHandler validates the values it was
\* called with and invokes exactly one callback, onSubmit when they satisfy the
\* schema and onError otherwise, and no exception escapes the handler.
C3_SubmitNeverThrows ==
    lastOp.op = "handleSubmit" =>
        /\ OneCallback(lastOp.values, lastOp.calls)
        /\ lastOp.outcome = "resolved"

\* C3, amended: the same, and an exception escapes the handler exactly when
\* the callback it invoked threw one.
C3_SubmitOneCallback ==
    lastOp.op = "handleSubmit" =>
        /\ OneCallback(lastOp.values, lastOp.calls)
        /\ errors = Resolver(lastOp.values)
        /\ (lastOp.outcome = "rejected") <=> lastOp.threw
        /\ lastOp.outcome \in {"resolved", "rejected"}

\* C3's case: on the form with defaults { name: '', lastName: '' }, after the
\* fields were set, a submit has invoked onSubmit with the values set.
C3_Witness ==
    /\ lastOp.op = "handleSubmit"
    /\ props.defaultValues = [f \in Fields |-> ""]
    /\ lastOp.calls = <<[callback |-> "onSubmit", arg |-> [f \in Fields |-> "Ada"]]>>
    /\ lastOp.outcome = "resolved"

\* C4: after clearErrors(input) no field has an error, whatever input names.
C4_ClearErrorsClearsAll ==
    lastOp.op = "clearErrors" =>
        \A f \in Fields :
            /\ FormState.errors[f] = ""
            /\ FieldState(f).error = ""
            /\ ~FieldState(f).invalid

\* C4's case: clearErrors(name) ran while a field it does not name had an error.
C4_Witness ==
    /\ lastOp.op = "clearErrors"
    /\ lastOp.input.kind = "string"
    /\ \E f \in Fields \ Named(lastOp.input) : lastOp.before[f] # ""
    /\ \A f \in Fields : FieldState(f).error = ""

\* The tags of the pending validations.
PendingTags == {inflight[i].tag : i \in 1..Len(inflight)}

\* C10: a pending validation leaves only by resolving; each resolves in the
\* end, to a boolean; and the errors of the fields it covers are then the ones
\* it wrote, whether or not calls started after it resolved before it.
C10_LastResolvedWins ==
    /\ [](lastOp.op = "resolve" =>
            /\ lastOp.result \in BOOLEAN
            /\ \A f \in lastOp.names : FieldState(f).error = lastOp.errs[f])
    /\ [][\A t \in PendingTags :
             t \in PendingTags' \/ (lastOp'.op = "resolve" /\ PendingTags' = PendingTags \ {t})]_vars
    /\ \A t \in 1..MaxInFlight : (t \in PendingTags) ~> (t \notin PendingTags)

\* C10's case: every call has resolved, the last of them one that a call
\* started later had overtaken, and the errors it wrote are not those of the
\* values the form now holds.
C10_Witness ==
    /\ lastOp.op = "resolve"
    /\ lastOp.overtaken
    /\ inflight = <<>>
    /\ \E f \in lastOp.names :
          /\ FieldState(f).error = lastOp.errs[f]
          /\ FieldState(f).error # FieldError(GetValues[f])

\* C8: a record debugMode() returned reads the same after every later
\* operation of the facade.
C8_SnapshotDecoupled ==
    [][(snapshot.taken /\ lastOp'.op # "debugMode") => snapshot' = snapshot]_vars

\* C9: a render of the field adapter that follows a render with no change of
\* the form values in between does not run setInitialValue again.
C9_EffectOncePerChange ==
    (lastOp.op = "render" /\ ~lastOp.mount /\ ~lastOp.valuesChanged) => ~lastOp.effectRan

====
